---- MODULE Spec2Model ----
(***************************************************************************)
(* A model of photomosaic.py: the tile partitioner (partition, _subdivide, *)
(* _tile_size), the matching index (Pool, SimpleMatcher) and the assembly  *)
(* step (draw_mosaic).                                                     *)
(*                                                                         *)
(* Three specifications share the variables:                               *)
(*   SpecPartition  one call of partition(image, grid_dims, mask, depth),  *)
(*                  stepped through its validation, base grid, mask        *)
(*                  pruning and refinement loop;                           *)
(*   SpecPool       a Pool after construction, under add and query, and    *)
(*                  the construction of a SimpleMatcher;                   *)
(*   SpecDraw       one call of draw_mosaic(image, tiles, matches).        *)
(* A specification holds the variables of the other components at their    *)
(* idle values.                                                            *)
(***************************************************************************)
EXTENDS Integers, Sequences, FiniteSets

VARIABLES
    image_shape,    \* image.shape[0:2]: <<rows, cols>>
    grid_dims,      \* partition's grid_dims: [isint, dims]
    mask,           \* partition's mask: [given, on]; given = FALSE is None
    depth,          \* partition's depth
    tiles,          \* partition's / draw_mosaic's list of tiles
    level,          \* iterations done of "for _ in range(depth)"
    pc,             \* position inside partition
    raised,         \* exception raised by the last call, or "none"
    _cache,         \* Pool._cache: sequence of <<key, vector>> in insertion order
    _keys_in_order, \* Pool._keys_in_order
    _data,          \* Pool._data
    _tree,          \* Pool._tree
    _stale,         \* Pool._stale
    call,           \* the last call: [op, x, k]
    result,         \* what the last operation returned
    n_builds,       \* number of _build_tree calls the last operation made
    canvas,         \* draw_mosaic's image, pixel -> content
    matches         \* draw_mosaic's matches

vars == <<image_shape, grid_dims, mask, depth, tiles, level, pc, raised,
          _cache, _keys_in_order, _data, _tree, _stale, call, result,
          n_builds, canvas, matches>>

partition_vars == <<image_shape, grid_dims, mask, depth, tiles, level, pc>>
pool_vars == <<_cache, _keys_in_order, _data, _tree, _stale, n_builds>>
draw_vars == <<canvas, matches>>

(***************************************************************************)
(* Bounds of the model.                                                    *)
(***************************************************************************)
MaxDim == 4      \* image rows and columns range over 1..MaxDim
MaxGrid == 2     \* grid counts per axis range over 1..MaxGrid
MaxDepth == 2    \* depth ranges over 0..MaxDepth
MaxPool == 2     \* a pre-filled cache holds at most MaxPool candidates
MaxCoord == 1    \* vector components range over 0..MaxCoord

(***************************************************************************)
(* Name resolution.  A function body's free name is looked up among its    *)
(* locals and then the module's globals; an attribute among those the      *)
(* object was given.                                                       *)
(***************************************************************************)
ModuleGlobals ==
    {"tqdm", "OrderedDict", "glob", "warnings", "copy", "os", "logging",
     "time", "random", "np", "scipy", "vq", "interpolate", "Image",
     "ImageFilter", "sqlite3", "cs", "DirectoryWalker", "memo",
     "progress_bar", "draw", "img_as_float", "imread", "resize",
     "colorspacious", "simple", "make_pool", "dominant_color",
     "SimpleMatcher", "draw_mosaic", "_subdivide", "partition",
     "_tile_center", "_tile_size", "draw_tiles", "crop_to_fit", "Pool"}

PoolAttributes ==
    {"_load", "_analyze", "_kdtree_class", "_cache", "_keys_in_order",
     "_data", "_tree", "_stale", "__setstate__", "__getstate__",
     "_build_tree", "add", "query", "get_image"}

(***************************************************************************)
(* Tiles.  A slice is <<start, stop>>; a tile is a pair of slices          *)
(* <<row slice, column slice>>; a pixel is <<row, col>>, from 0.           *)
(***************************************************************************)
slice(start, stop) == <<start, stop>>

\* the pixels image[tile] selects
region(tile) ==
    {<<r, c>> : r \in tile[1][1] .. (tile[1][2] - 1),
                c \in tile[2][1] .. (tile[2][2] - 1)}

_tile_size(tile) == <<tile[1][2] - tile[1][1], tile[2][2] - tile[2][1]>>

\* np.any(mask[tile])
any_mask(m, tile) == \E p \in region(tile) : p \in m.on

\* np.any(~mask[tile])
any_not_mask(m, tile) == \E p \in region(tile) : p \notin m.on

\* [tile for tile in ts if np.any(mask[tile])]
discard_outside(m, ts) ==
    LET inside(t) == any_mask(m, t) IN SelectSeq(ts, inside)

_subdivide(tile) ==
    LET tile_dims == <<(tile[1][2] - tile[1][1]) \div 2,
                       (tile[2][2] - tile[2][1]) \div 2>>
    IN  [i \in 1..4 |->
            LET y == (i - 1) \div 2
                x == (i - 1) % 2
            IN  <<slice(tile[1][1] + y * tile_dims[1],
                        tile[1][1] + (1 + y) * tile_dims[1]),
                  slice(tile[2][1] + x * tile_dims[2],
                        tile[2][1] + (1 + x) * tile_dims[2])>>]

\* "image_dim % grid_dim*2**depth != 0": % and * bind alike, left to right
not_divisible(image_dim, grid_dim, d) == ((image_dim % grid_dim) * (2 ^ d)) # 0

\* base_grid with the tile height used for the columns too
base_grid_square_tiles(shape, dims) ==
    LET tile_height == shape[1] \div dims[1]
    IN  [i \in 1 .. (dims[1] * dims[2]) |->
            LET y == (i - 1) \div dims[2]
                x == (i - 1) % dims[2]
            IN  <<slice(y * tile_height, (1 + y) * tile_height),
                  slice(x * tile_height, (1 + x) * tile_height)>>]

\* the equal-sized tiles of the base grid, row by row
base_grid(shape, dims) ==
    LET tile_height == shape[1] \div dims[1]
        tile_width == shape[2] \div dims[2]
    IN  [i \in 1 .. (dims[1] * dims[2]) |->
            LET y == (i - 1) \div dims[2]
                x == (i - 1) % dims[2]
            IN  <<slice(y * tile_height, (1 + y) * tile_height),
                  slice(x * tile_width, (1 + x) * tile_width)>>]

\* refine_tile that keeps every quadrant of a tile it splits
refine_tile_keep_quadrants(m, tile) ==
    IF m.given /\ any_mask(m, tile) /\ any_not_mask(m, tile)
    THEN _subdivide(tile)
    ELSE <<tile>>

\* what one tile contributes to new_tiles in one pass of the refinement loop
refine_tile(m, tile) ==
    IF m.given /\ any_mask(m, tile) /\ any_not_mask(m, tile)
    THEN discard_outside(m, _subdivide(tile))
    ELSE <<tile>>

RECURSIVE refine_tiles(_, _)
refine_tiles(m, ts) ==
    IF ts = <<>> THEN <<>>
    ELSE refine_tile(m, Head(ts)) \o refine_tiles(m, Tail(ts))

(***************************************************************************)
(* Inputs of partition.                                                    *)
(***************************************************************************)
Pixels(shape) == {<<r, c>> : r \in 0 .. (shape[1] - 1), c \in 0 .. (shape[2] - 1)}

\* masks: the rectangles of the image (the empty one included) and their
\* complements
Masks(shape) ==
    LET rects == {region(<<slice(a, b), slice(c, d)>>) :
                    <<a, b, c, d>> \in
                        {q \in (0 .. shape[1]) \X (0 .. shape[1])
                                 \X (0 .. shape[2]) \X (0 .. shape[2]) :
                            q[1] <= q[2] /\ q[3] <= q[4]}}
    IN  rects \cup {Pixels(shape) \ r : r \in rects}

NoMask == [given |-> FALSE, on |-> {}]

InitIdlePartition ==
    /\ image_shape = <<1, 1>>
    /\ grid_dims = [isint |-> FALSE, dims |-> <<1, 1>>]
    /\ mask = NoMask
    /\ depth = 0
    /\ tiles = <<>>
    /\ level = 0
    /\ pc = "idle"

InitIdlePool ==
    /\ _cache = <<>>
    /\ _keys_in_order = <<>>
    /\ _data = <<>>
    /\ _tree = [n |-> 0, m |-> 0, data |-> <<>>]
    /\ _stale = FALSE
    /\ n_builds = 0

InitIdleDraw ==
    /\ canvas = <<>>
    /\ matches = <<>>

NoResult == [kind |-> "none", value |-> <<>>]

Call(op, x, k) == [op |-> op, x |-> x, k |-> k]

InitPartition ==
    /\ image_shape \in (1 .. MaxDim) \X (1 .. MaxDim)
    /\ grid_dims \in
         [isint : {FALSE}, dims : (1 .. MaxGrid) \X (1 .. MaxGrid)]
         \cup {[isint |-> TRUE, dims |-> <<g, g>>] : g \in 1 .. MaxGrid}
    /\ mask \in {NoMask} \cup [given : {TRUE}, on : Masks(image_shape)]
    /\ depth \in 0 .. MaxDepth
    /\ tiles = <<>>
    /\ level = 0
    /\ pc = "validate"
    /\ raised = "none"
    /\ call = Call("partition", <<>>, 0)
    /\ result = NoResult
    /\ InitIdlePool
    /\ InitIdleDraw

(***************************************************************************)
(* partition, step by step.                                                *)
(***************************************************************************)
\* lines 218-230: an int grid_dims reaches image.ndims, which no array has;
\* a pair is checked axis by axis
Validate ==
    /\ pc = "validate"
    /\ IF grid_dims.isint
       THEN /\ raised' = "AttributeError"
            /\ pc' = "raised"
       ELSE IF \E i \in {1, 2} :
                    not_divisible(image_shape[i], grid_dims.dims[i], depth)
            THEN /\ raised' = "ValueError"
                 /\ pc' = "raised"
            ELSE /\ raised' = raised
                 /\ pc' = "grid"
    /\ UNCHANGED <<image_shape, grid_dims, mask, depth, tiles, level>>
    /\ UNCHANGED <<pool_vars, draw_vars, call, result>>

\* lines 232-240
BuildGrid ==
    /\ pc = "grid"
    /\ tiles' = base_grid(image_shape, grid_dims.dims)
    /\ pc' = "prune"
    /\ UNCHANGED <<image_shape, grid_dims, mask, depth, level, raised>>
    /\ UNCHANGED <<pool_vars, draw_vars, call, result>>

\* lines 242-244
DiscardOutside ==
    /\ pc = "prune"
    /\ tiles' = IF mask.given THEN discard_outside(mask, tiles) ELSE tiles
    /\ pc' = "refine"
    /\ UNCHANGED <<image_shape, grid_dims, mask, depth, level, raised>>
    /\ UNCHANGED <<pool_vars, draw_vars, call, result>>

\* lines 248-261: one pass of "for _ in range(depth)"
RefineLevel ==
    /\ pc = "refine"
    /\ level < depth
    /\ tiles' = refine_tiles(mask, tiles)
    /\ level' = level + 1
    /\ UNCHANGED <<image_shape, grid_dims, mask, depth, pc, raised>>
    /\ UNCHANGED <<pool_vars, draw_vars, call, result>>

\* line 262
Return ==
    /\ pc = "refine"
    /\ level = depth
    /\ pc' = "done"
    /\ result' = [kind |-> "tiles", value |-> tiles]
    /\ UNCHANGED <<image_shape, grid_dims, mask, depth, tiles, level, raised>>
    /\ UNCHANGED <<pool_vars, draw_vars, call>>

NextPartition == Validate \/ BuildGrid \/ DiscardOutside \/ RefineLevel \/ Return

SpecPartition == InitPartition /\ [][NextPartition]_vars

(***************************************************************************)
(* The matching index.  A colour vector is a pair of components; an        *)
(* identifier is the tuple of arguments that opens a file.                 *)
(***************************************************************************)
Coords == 0 .. MaxCoord
Vectors == Coords \X Coords
Key(i) == <<"file", i>>

\* the values of query's k: the nearest, and the two nearest
Ks == {1, 2}

\* a cache: a mapping in insertion order, as a sequence of <<key, vector>>
Caches ==
    UNION {{[i \in 1 .. n |-> <<Key(i), v[i]>>] : v \in [1 .. n -> Vectors]} :
            n \in 0 .. MaxPool}

RECURSIVE dist2(_, _)
\* the square of the Euclidean distance, which orders as the distance does
dist2(u, v) ==
    IF u = <<>> THEN 0
    ELSE (u[1] - v[1]) * (u[1] - v[1]) + dist2(Tail(u), Tail(v))

\* cKDTree(arr) over an n x m array
cKDTree(arr) ==
    [n |-> Len(arr), m |-> IF arr = <<>> THEN 0 ELSE Len(arr[1]), data |-> arr]

\* the outcomes of tree.query(x, k): an error when x has not the tree's
\* dimension; otherwise distances and (0-based) positions of the k nearest
\* points, nearest first, equidistant points in any order, a neighbour that
\* is missing given as distance inf (here -1) and position n. With k = 1 both
\* are scalars.
cKDTree_query(tree, x, k) ==
    IF Len(x) # tree.m
    THEN {[raised |-> "ValueError", value |-> <<>>]}
    ELSE LET kk == IF k < tree.n THEN k ELSE tree.n
             d(i) == dist2(tree.data[i], x)
             orders ==
                 {s \in [1 .. kk -> 1 .. tree.n] :
                     /\ \A a, b \in 1 .. kk : a < b =>
                            (s[a] # s[b] /\ d(s[a]) <= d(s[b]))
                     /\ \A i \in 1 .. tree.n :
                            (\A a \in 1 .. kk : s[a] # i) =>
                                (\A a \in 1 .. kk : d(s[a]) <= d(i))}
             dd(s) == [j \in 1 .. k |-> IF j <= kk THEN d(s[j]) ELSE -1]
             ii(s) == [j \in 1 .. k |-> IF j <= kk THEN s[j] - 1 ELSE tree.n]
         IN  {[raised |-> "none",
               value |-> IF k = 1 THEN <<dd(s)[1], ii(s)[1]>>
                                  ELSE <<dd(s), ii(s)>>] : s \in orders}

\* _build_tree whose tree of an empty pool holds no point, of the vectors'
\* dimension
_build_tree_no_points(data) ==
    IF data = <<>> THEN [n |-> 0, m |-> 2, data |-> <<>>] ELSE cKDTree(data)

\* Pool._build_tree: an empty pool gets a tree over np.array([]).reshape(2, 0)
_build_tree(data) ==
    IF data = <<>> THEN cKDTree(<< <<>>, <<>> >>) ELSE cKDTree(data)

\* Pool.__init__, lines 343-357
InitPoolObject ==
    /\ _cache \in Caches
    /\ _keys_in_order = [i \in 1 .. Len(_cache) |-> _cache[i][1]]
    /\ _data = [i \in 1 .. Len(_cache) |-> _cache[i][2]]
    /\ _tree = _build_tree(_data)
    /\ _stale = FALSE
    /\ n_builds = 1

InitPool ==
    /\ InitPoolObject
    /\ call = Call("Pool", <<>>, 0)
    /\ raised = "none"
    /\ result = NoResult
    /\ InitIdlePartition
    /\ InitIdleDraw

\* Pool.add, lines 387-392: the first statement reads self._load_func, an
\* attribute no Pool has, and raises before anything is appended
add ==
    \E args \in {Key(1), Key(Len(_keys_in_order) + 1)} :
        /\ "_load_func" \notin PoolAttributes
        /\ raised' = "AttributeError"
        /\ call' = Call("add", args, 0)
        /\ result' = NoResult
        /\ n_builds' = 0
        /\ UNCHANGED <<_cache, _keys_in_order, _data, _tree, _stale>>
        /\ UNCHANGED <<partition_vars, draw_vars>>

\* Pool.query, lines 394-398
query ==
    \E x \in Vectors, k \in Ks :
        LET tree == IF _stale THEN _build_tree(_data) ELSE _tree
        IN  \E out \in cKDTree_query(tree, x, k) :
                /\ _tree' = tree
                /\ _stale' = FALSE
                /\ n_builds' = IF _stale THEN 1 ELSE 0
                /\ raised' = out.raised
                /\ result' = IF out.raised = "none"
                             THEN [kind |-> "distance_index", value |-> out.value]
                             ELSE NoResult
                /\ call' = Call("query", x, k)
                /\ UNCHANGED <<_cache, _keys_in_order, _data>>
                /\ UNCHANGED <<partition_vars, draw_vars>>

\* SimpleMatcher(pool).match(vector), lines 144-152, with the cache as the
\* pool: __init__ reads the global cKDTree, which the module never binds (it
\* is imported inside Pool.__init__ only), and raises before match can be
\* called
SimpleMatcher_match ==
    \E vector \in Vectors :
        /\ "cKDTree" \notin ModuleGlobals
        /\ raised' = "NameError"
        /\ call' = Call("match", vector, 1)
        /\ result' = NoResult
        /\ n_builds' = 0
        /\ UNCHANGED <<_cache, _keys_in_order, _data, _tree, _stale>>
        /\ UNCHANGED <<partition_vars, draw_vars>>

NextPool == add \/ query \/ SimpleMatcher_match

SpecPool == InitPool /\ [][NextPool]_vars

(***************************************************************************)
(* Assembly.  A canvas pixel holds what was painted there: the identifier  *)
(* of the source and the size it was resized to.                           *)
(***************************************************************************)
Blank == [from |-> <<"blank", 0>>, size |-> <<0, 0>>]

InitDraw ==
    /\ image_shape \in (1 .. MaxDim) \X (1 .. MaxDim)
    /\ tiles \in {base_grid(image_shape, g) :
                    g \in {q \in (1 .. MaxGrid) \X (1 .. MaxGrid) :
                            /\ image_shape[1] % q[1] = 0
                            /\ image_shape[2] % q[2] = 0}}
    /\ matches \in [1 .. Len(tiles) -> {Key(1), Key(2)}]
    /\ canvas = [p \in Pixels(image_shape) |-> Blank]
    /\ grid_dims = [isint |-> FALSE, dims |-> <<1, 1>>]
    /\ mask = NoMask
    /\ depth = 0
    /\ level = 0
    /\ pc = "idle"
    /\ call = Call("none", <<>>, 0)
    /\ raised = "none"
    /\ result = NoResult
    /\ InitIdlePool

\* draw_mosaic, lines 173-177: the loop header reads tile_matches, which is
\* neither a parameter (image, tiles, matches) nor a global, and raises
\* before the first tile is painted
draw_mosaic ==
    /\ call.op = "none"
    /\ "tile_matches" \notin ({"image", "tiles", "matches"} \cup ModuleGlobals)
    /\ raised' = "NameError"
    /\ call' = Call("draw_mosaic", <<>>, 0)
    /\ UNCHANGED <<partition_vars, pool_vars, draw_vars, result>>

NextDraw == draw_mosaic

SpecDraw == InitDraw /\ [][NextDraw]_vars

(***************************************************************************)
(* Properties of partition.                                                *)
(***************************************************************************)
\* pixel p lies in the half-open ranges of tile t
Covers(t, p) ==
    /\ t[1][1] <= p[1] /\ p[1] < t[1][2]
    /\ t[2][1] <= p[2] /\ p[2] < t[2][2]

Extent(t, axis) == t[axis][2] - t[axis][1]

TilesOver(p) == {i \in 1 .. Len(tiles) : Covers(tiles[i], p)}

\* the region of t holds both true and false mask pixels
Straddles(t) ==
    /\ \E p \in Pixels(image_shape) : Covers(t, p) /\ p \in mask.on
    /\ \E p \in Pixels(image_shape) : Covers(t, p) /\ p \notin mask.on

FullyInside(t) == \A p \in Pixels(image_shape) : Covers(t, p) => p \in mask.on

\* the documented requirement: each image dimension is a multiple of
\* grid_dim * 2^depth
EvenlyDivisible ==
    \A i \in {1, 2} : image_shape[i] % (grid_dims.dims[i] * (2 ^ depth)) = 0

\* C1: whenever an image dimension is not evenly divisible by
\* grid_dims[axis] * 2^depth, for any depth >= 0, partition raises the
\* validation error and returns no tiles.
C1_DivisibilityGuard ==
    (pc # "validate" /\ ~grid_dims.isint /\ ~EvenlyDivisible)
        => (pc = "raised" /\ raised = "ValueError" /\ tiles = <<>>)

\* C2: a call without a mask that passes validation returns exactly
\* grid_dims[0] * grid_dims[1] tiles, each of size
\* (rows / grid_dims[0], cols / grid_dims[1]), and every pixel of the image
\* lies in exactly one of them.
C2_Coverage ==
    (pc = "done" /\ ~mask.given) =>
        /\ Len(tiles) = grid_dims.dims[1] * grid_dims.dims[2]
        /\ \A i \in 1 .. Len(tiles) :
              /\ Extent(tiles[i], 1) * grid_dims.dims[1] = image_shape[1]
              /\ Extent(tiles[i], 2) * grid_dims.dims[2] = image_shape[2]
        /\ \A p \in Pixels(image_shape) : Cardinality(TilesOver(p)) = 1

C2_Witness ==
    /\ pc = "done" /\ ~mask.given
    /\ image_shape = <<4, 2>> /\ grid_dims.dims = <<2, 2>> /\ depth >= 1
    /\ Len(tiles) = 4

\* C3: with a mask, at any depth, every tile kept after the base grid's
\* pruning and after each subdivision level, and so every returned tile, has
\* a non-empty region that holds at least one true mask pixel.
C3_MaskAdherence ==
    (pc \in {"refine", "done"} /\ mask.given) =>
        \A i \in 1 .. Len(tiles) :
            /\ Extent(tiles[i], 1) > 0
            /\ Extent(tiles[i], 2) > 0
            /\ \E p \in mask.on : Covers(tiles[i], p)

\* a 4x4 image in one base tile, split once, one quadrant discarded
C3_Witness ==
    /\ pc = "done" /\ mask.given
    /\ image_shape = <<4, 4>> /\ grid_dims.dims = <<1, 1>> /\ depth = 1
    /\ Len(tiles) = 3

\* the four quadrants of t, each axis halved exactly
Quadrants(t) ==
    {<<slice(t[1][1] + y * h, t[1][1] + (y + 1) * h),
       slice(t[2][1] + x * w, t[2][1] + (x + 1) * w)>> :
        <<y, x, h, w>> \in
            {q \in {0, 1} \X {0, 1} \X (0 .. Extent(t, 1)) \X (0 .. Extent(t, 2)) :
                2 * q[3] = Extent(t, 1) /\ 2 * q[4] = Extent(t, 2)}}

Range(s) == {s[i] : i \in 1 .. Len(s)}

\* one refinement level: a tile is replaced by its four quadrants exactly
\* when it straddles the mask edge, and is kept unchanged otherwise
C9_Level ==
    (pc = "refine" /\ level' = level + 1) =>
        \A t \in Range(tiles) :
            IF mask.given /\ Straddles(t)
            THEN /\ t \notin Range(tiles')
                 /\ Cardinality(Quadrants(t)) = 4
                 /\ \A q \in Quadrants(t) :
                        (\E p \in mask.on : Covers(q, p)) => q \in Range(tiles')
            ELSE t \in Range(tiles')

\* the returned tiles: one that still straddles has the base size over
\* 2^depth on each axis, a larger one lies fully inside the mask, and
\* without a mask every tile has the base size
C9_Returned ==
    pc = "done" =>
        \A i \in 1 .. Len(tiles) :
            LET over(axis) ==
                    Extent(tiles[i], axis) * (2 ^ depth) * grid_dims.dims[axis]
            IN  IF mask.given
                THEN /\ Straddles(tiles[i]) =>
                            /\ over(1) = image_shape[1]
                            /\ over(2) = image_shape[2]
                     /\ (over(1) > image_shape[1] \/ over(2) > image_shape[2])
                            => FullyInside(tiles[i])
                ELSE /\ Extent(tiles[i], 1) * grid_dims.dims[1] = image_shape[1]
                     /\ Extent(tiles[i], 2) * grid_dims.dims[2] = image_shape[2]

\* C9: at each of the depth levels a tile is replaced by its four equal
\* quadrants (each axis halved) if and only if it straddles the mask edge;
\* so a returned tile that still straddles has size base_tile_size / 2^depth,
\* a larger returned tile lies fully inside the mask, and without a mask no
\* tile is split.
C9_AdaptiveRefinement == [][C9_Level]_vars /\ []C9_Returned

\* C10: for a call that passes the function's validation the returned tiles
\* are pairwise non-overlapping, lie within the image, and every true mask
\* pixel lies in exactly one of them.
C10_NoMaskedPixelLost ==
    pc = "done" =>
        /\ \A p \in Pixels(image_shape) : Cardinality(TilesOver(p)) <= 1
        /\ \A i \in 1 .. Len(tiles) :
              /\ 0 <= tiles[i][1][1] /\ tiles[i][1][2] <= image_shape[1]
              /\ 0 <= tiles[i][2][1] /\ tiles[i][2][2] <= image_shape[2]
        /\ mask.given =>
              \A p \in mask.on : Cardinality(TilesOver(p)) = 1

(***************************************************************************)
(* Properties of the matching index.                                       *)
(***************************************************************************)
\* candidate i is at minimal Euclidean distance from x
Nearest(i, x) ==
    \A j \in 1 .. Len(_data) : dist2(_data[i], x) <= dist2(_data[j], x)

\* C4: on a non-empty pool, SimpleMatcher.match(vector) and the index's
\* query return the identifier, read from the insertion-ordered identifier
\* sequence, of a stored candidate at minimal Euclidean distance from the
\* query vector.
C4_NearestIdentifier ==
    (call.op \in {"query", "match"} /\ call.k = 1 /\ _keys_in_order # <<>>) =>
        /\ raised = "none"
        /\ result.kind = "identifier"
        /\ \E i \in 1 .. Len(_keys_in_order) :
              Nearest(i, call.x) /\ result.value = _keys_in_order[i]

\* C5: add completes without error, appends exactly one identifier and, at
\* the same position, one colour vector, sets the stale flag and leaves the
\* spatial index alone; the two sequences always have the same length.
C5_AddStep ==
    call'.op = "add" =>
        /\ raised' = "none"
        /\ _keys_in_order' = Append(_keys_in_order, call'.x)
        /\ Len(_data') = Len(_data) + 1
        /\ _data'[Len(_data')] \in Vectors
        /\ SubSeq(_data', 1, Len(_data)) = _data
        /\ _stale' = TRUE
        /\ _tree' = _tree

C5_Add == [][C5_AddStep]_vars /\ [](Len(_keys_in_order) = Len(_data))

\* C6: whenever the stale flag is false the tree is the one built from
\* scratch over all the vectors; query rebuilds exactly when the flag is
\* set, and clears it; a burst of adds followed by one query performs
\* exactly one rebuild.
C6_QueryStep ==
    call'.op = "query" =>
        /\ n_builds' = (IF _stale THEN 1 ELSE 0)
        /\ _stale' = FALSE
        /\ _tree'.data = (IF _data' = <<>> THEN << <<>>, <<>> >> ELSE _data')
        /\ call.op = "add" => n_builds' = 1

C6_LazyRebuild ==
    /\ [][C6_QueryStep]_vars
    /\ [](~_stale =>
            _tree.data = (IF _data = <<>> THEN << <<>>, <<>> >> ELSE _data))

\* C7: a query on a Pool that holds no candidate fails with an error
\* instead of returning a result, and leaves the identifier and vector
\* sequences as they were.
C7_EmptyQueryStep ==
    (call'.op = "query" /\ _keys_in_order = <<>>) =>
        /\ raised' # "none"
        /\ result' = NoResult
        /\ _keys_in_order' = _keys_in_order
        /\ _data' = _data

C8_DrawMosaic ==
    call.op = "draw_mosaic" =>
        /\ raised = "none"
        /\ \A i \in 1 .. Len(tiles) :
              \A p \in Pixels(image_shape) :
                  Covers(tiles[i], p) =>
                      canvas[p] = [from |-> matches[i],
                                   size |-> <<Extent(tiles[i], 1),
                                              Extent(tiles[i], 2)>>]
        /\ \A p \in Pixels(image_shape) :
              TilesOver(p) = {} => canvas[p] = Blank

====
